---- MODULE Spec2Model ----
(***************************************************************************)
(* Model of the health-checkup interpretation engine (hc_core.py) and of   *)
(* the run handler of app.py.                                              *)
(*                                                                         *)
(* Numbers: every lab value and bound is a fixed-point number counted in   *)
(* hundredths (126 mg/dL is 12600, 0.74 mg/dL is 74, 5.6 % is 560).        *)
(* Optional[float] is a sequence: <<>> is None, <<n>> is the number n.     *)
(* Korean texts are replaced by ASCII renderings, one per source string.   *)
(* NaN and infinities are outside the modelled input domain.               *)
(***************************************************************************)
EXTENDS Integers, Sequences, FiniteSets, TLC

VARIABLES person, labs, results, report, merged, pc

vars == <<person, labs, results, report, merged, pc>>

None == <<>>
Some(x) == <<x>>
Abs(n) == IF n < 0 THEN -n ELSE n

(* Bounds of the model *)
MaxEntries == 3

----------------------------------------------------------------------------
(* Utilities *)

\* Decimal ties (x.x5) whose binary double lies above the tie: 1.35 -> "1.4".
\* Ties that are exact in binary (x.25, x.75) round half to even.
TieRoundsUp(a) ==
    IF a % 25 = 0 THEN ((a \div 10) % 2) = 1 ELSE a \in {135}

Tenths(a) ==
    LET r == a % 10
    IN  IF r < 5 THEN a \div 10
        ELSE IF r > 5 THEN (a \div 10) + 1
        ELSE IF TieRoundsUp(a) THEN (a \div 10) + 1 ELSE a \div 10

fmt(x) ==
    IF x = None THEN "-"
    ELSE LET n == x[1]
             t == Tenths(Abs(n))
             s == (IF n < 0 THEN "-" ELSE "") \o ToString(t \div 10)
         IN  IF t % 10 = 0 THEN s ELSE s \o "." \o ToString(t % 10)

----------------------------------------------------------------------------
(* Data models *)

Person(age, sex) == [age |-> age, sex |-> sex]

LabInput(value, ref_low, ref_high, unit) ==
    [value |-> value, ref_low |-> ref_low, ref_high |-> ref_high, unit |-> unit]

LabInputDefault == LabInput(None, None, None, "")

ItemResult(key, name_ko, value, unit, status, short, easy_explain, possible_causes, next_steps, warnings, evidence) ==
    [key |-> key, name_ko |-> name_ko, value |-> value, unit |-> unit,
     status |-> status, short |-> short, easy_explain |-> easy_explain,
     possible_causes |-> possible_causes, next_steps |-> next_steps,
     warnings |-> warnings, evidence |-> evidence]

----------------------------------------------------------------------------
(* UI helpers / constants *)

LAB_KEYS ==
    <<"fasting_glucose", "hba1c", "total_chol", "ldl", "hdl", "tg",
      "ast", "alt", "ggt", "creatinine", "egfr", "uric_acid", "sbp", "dbp">>

DISPLAY_NAMES_KO ==
    [fasting_glucose |-> "Fasting glucose",
     hba1c           |-> "HbA1c",
     total_chol      |-> "Total cholesterol",
     ldl             |-> "LDL cholesterol",
     hdl             |-> "HDL cholesterol",
     tg              |-> "Triglycerides(TG)",
     ast             |-> "AST(GOT)",
     alt             |-> "ALT(GPT)",
     ggt             |-> "Gamma-GT(GGT)",
     creatinine      |-> "Creatinine",
     egfr            |-> "eGFR",
     uric_acid       |-> "Uric acid",
     sbp             |-> "Systolic BP(SBP)",
     dbp             |-> "Diastolic BP(DBP)",
     bp              |-> "Blood pressure"]

UNITS_DEFAULT ==
    [fasting_glucose |-> "mg/dL",
     hba1c           |-> "%",
     total_chol      |-> "mg/dL",
     ldl             |-> "mg/dL",
     hdl             |-> "mg/dL",
     tg              |-> "mg/dL",
     ast             |-> "U/L",
     alt             |-> "U/L",
     ggt             |-> "U/L",
     creatinine      |-> "mg/dL",
     egfr            |-> "mL/min/1.73m2",
     uric_acid       |-> "mg/dL",
     sbp             |-> "mmHg",
     dbp             |-> "mmHg"]

\* dict.get(key, default)
DictGet(d, key, default) == IF key \in DOMAIN d THEN d[key] ELSE default

----------------------------------------------------------------------------
(* Simple reference ranges *)

RefRange(low, high, unit) == [low |-> low, high |-> high, unit |-> unit]

\* classify with the both-bounds-absent test left out
classify_no_unknown(self, value) ==
    IF self.low # None /\ value < self.low[1] THEN "low"
    ELSE IF self.high # None /\ value > self.high[1] THEN "high"
    ELSE "normal"

classify(self, value) ==
    IF self.low # None /\ value < self.low[1] THEN "low"
    ELSE IF self.high # None /\ value > self.high[1] THEN "high"
    ELSE IF self.low = None /\ self.high = None THEN "unknown"
    ELSE "normal"

DEFAULT_RANGES ==
    [fasting_glucose   |-> RefRange(Some(7000), Some(9900), "mg/dL"),
     hba1c             |-> RefRange(Some(400), Some(560), "%"),
     total_chol        |-> RefRange(None, Some(19900), "mg/dL"),
     ldl               |-> RefRange(None, Some(12900), "mg/dL"),
     hdl_male          |-> RefRange(Some(4000), None, "mg/dL"),
     hdl_female        |-> RefRange(Some(5000), None, "mg/dL"),
     tg                |-> RefRange(None, Some(14900), "mg/dL"),
     ast               |-> RefRange(None, Some(4000), "U/L"),
     alt               |-> RefRange(None, Some(4000), "U/L"),
     ggt_male          |-> RefRange(None, Some(6000), "U/L"),
     ggt_female        |-> RefRange(None, Some(4000), "U/L"),
     creatinine_male   |-> RefRange(Some(74), Some(135), "mg/dL"),
     creatinine_female |-> RefRange(Some(59), Some(104), "mg/dL"),
     egfr              |-> RefRange(Some(9000), None, "mL/min/1.73m2"),
     uric_male         |-> RefRange(Some(340), Some(700), "mg/dL"),
     uric_female       |-> RefRange(Some(240), Some(600), "mg/dL")]

\* get_default_ref with the uric_acid branch left out
get_default_ref_no_uric(key, p) ==
    IF key = "hdl" THEN
        (IF p.sex = "male" THEN DEFAULT_RANGES["hdl_male"] ELSE DEFAULT_RANGES["hdl_female"])
    ELSE IF key = "ggt" THEN
        (IF p.sex = "male" THEN DEFAULT_RANGES["ggt_male"] ELSE DEFAULT_RANGES["ggt_female"])
    ELSE IF key = "creatinine" THEN
        (IF p.sex = "male" THEN DEFAULT_RANGES["creatinine_male"]
         ELSE DEFAULT_RANGES["creatinine_female"])
    ELSE DictGet(DEFAULT_RANGES, key, RefRange(None, None, DictGet(UNITS_DEFAULT, key, "")))

get_default_ref(key, p) ==
    IF key = "hdl" THEN
        (IF p.sex = "male" THEN DEFAULT_RANGES["hdl_male"] ELSE DEFAULT_RANGES["hdl_female"])
    ELSE IF key = "ggt" THEN
        (IF p.sex = "male" THEN DEFAULT_RANGES["ggt_male"] ELSE DEFAULT_RANGES["ggt_female"])
    ELSE IF key = "creatinine" THEN
        (IF p.sex = "male" THEN DEFAULT_RANGES["creatinine_male"]
         ELSE DEFAULT_RANGES["creatinine_female"])
    ELSE IF key = "uric_acid" THEN
        (IF p.sex = "male" THEN DEFAULT_RANGES["uric_male"] ELSE DEFAULT_RANGES["uric_female"])
    ELSE DictGet(DEFAULT_RANGES, key, RefRange(None, None, DictGet(UNITS_DEFAULT, key, "")))

\* classify_with_ref taking the user's range whole once a low bound is supplied
classify_with_ref_whole(value, li, rr) ==
    LET low  == IF li.ref_low # None THEN li.ref_low ELSE rr.low
        high == IF li.ref_low # None THEN li.ref_high ELSE
                IF li.ref_high # None THEN li.ref_high ELSE rr.high
        rr2  == RefRange(low, high, rr.unit)
    IN  <<classify(rr2, value), rr2>>

\* returns the pair (classification, merged range)
classify_with_ref(value, li, rr) ==
    LET low  == IF li.ref_low # None THEN li.ref_low ELSE rr.low
        high == IF li.ref_high # None THEN li.ref_high ELSE rr.high
        rr2  == RefRange(low, high, rr.unit)
    IN  <<classify(rr2, value), rr2>>

\* bp_status with the critical row requiring both values
bp_status_and(sbp, dbp) ==
    IF sbp >= 18000 /\ dbp >= 12000 THEN
        <<"critical", "BP very high, immediate evaluation may be needed.">>
    ELSE IF sbp >= 14000 \/ dbp >= 9000 THEN
        <<"high", "BP in the high category (stage 2).">>
    ELSE IF (13000 <= sbp /\ sbp <= 13900) \/ (8000 <= dbp /\ dbp <= 8900) THEN
        <<"borderline", "BP in the high category (stage 1).">>
    ELSE IF (12000 <= sbp /\ sbp <= 12900) /\ dbp < 8000 THEN
        <<"borderline", "BP slightly above normal (elevated).">>
    ELSE <<"normal", "BP in the normal category.">>

\* returns the pair (status, short text)
bp_status(sbp, dbp) ==
    IF sbp >= 18000 \/ dbp >= 12000 THEN
        <<"critical", "BP very high, immediate evaluation may be needed.">>
    ELSE IF sbp >= 14000 \/ dbp >= 9000 THEN
        <<"high", "BP in the high category (stage 2).">>
    ELSE IF (13000 <= sbp /\ sbp <= 13900) \/ (8000 <= dbp /\ dbp <= 8900) THEN
        <<"borderline", "BP in the high category (stage 1).">>
    ELSE IF (12000 <= sbp /\ sbp <= 12900) /\ dbp < 8000 THEN
        <<"borderline", "BP slightly above normal (elevated).">>
    ELSE <<"normal", "BP in the normal category.">>

----------------------------------------------------------------------------
(* Interpretation *)

\* '...' if cls=='normal' else '...' if cls=='high' else '...' if cls=='low' else '...'
cls_label(cls) ==
    IF cls = "normal" THEN "jeongsang"
    ELSE IF cls = "high" THEN "nopeum"
    ELSE IF cls = "low" THEN "najeum"
    ELSE "pandanbulga"

by_ref_short(name, cls) ==
    name \o " is in the '" \o cls_label(cls) \o "' category by the reference range."

\* the absent item carrying a zero value
absent_item_zero(key, unit) ==
    ItemResult(key, DictGet(DISPLAY_NAMES_KO, key, key), Some(0), unit, "unknown",
               "No input value.", "A number is needed to interpret.",
               <<>>, <<"Enter the value from your checkup sheet.">>, <<>>, <<>>)

\* the item appended when li.value is None
absent_item(key, unit) ==
    ItemResult(key, DictGet(DISPLAY_NAMES_KO, key, key), None, unit, "unknown",
               "No input value.", "A number is needed to interpret.",
               <<>>, <<"Enter the value from your checkup sheet.">>, <<>>, <<>>)

\* evidence list built after classify_with_ref
evidence_of(rr2, unit) ==
    IF rr2.low # None \/ rr2.high # None
    THEN <<"Reference(default/input): " \o fmt(rr2.low) \o " ~ " \o fmt(rr2.high)
           \o (IF unit = "" THEN "" ELSE " " \o unit)>>
    ELSE <<>>

\* the glucose ladder with a strict first rung
fasting_glucose_item_gt(key, name, v, unit, cls, ev) ==
    LET explain  == "Fasting glucose is the blood sugar in the fasting state."
        steps0   == <<"Recent meals/exercise/sleep/stress can have an effect.">>
        warnings == <<"Not a diagnosis. Consult a clinician.">>
    IN  IF v > 12600 THEN
            ItemResult(key, name, Some(v), unit, "high",
                name \o " measured high, at 126 or above.", explain,
                <<"Possible glucose metabolism problem", "Condition/drug/stress effect">>,
                steps0 \o <<"Discuss a retest or HbA1c with a clinician.">>, warnings, ev)
        ELSE IF 10000 <= v /\ v <= 12500 THEN
            ItemResult(key, name, Some(v), unit, "borderline",
                name \o " is in the 100-125 band, possibly borderline.", explain,
                <<"Weight gain/lack of exercise", "Carbohydrate intake", "Lack of sleep">>,
                steps0 \o <<"Adjust diet, exercise, consider a retest in 1-3 months.">>,
                warnings, ev)
        ELSE IF v < 7000 THEN
            ItemResult(key, name, Some(v), unit, "low",
                name \o " measured low.", explain,
                <<"Fasting too long", "Some drugs", "Condition effect">>,
                steps0 \o <<"Consult a clinician if you have hypoglycemia symptoms.">>,
                warnings, ev)
        ELSE
            ItemResult(key, name, Some(v), unit, cls, by_ref_short(name, cls), explain,
                <<>>, steps0, warnings, ev)

fasting_glucose_item(key, name, v, unit, cls, ev) ==
    LET explain  == "Fasting glucose is the blood sugar in the fasting state."
        steps0   == <<"Recent meals/exercise/sleep/stress can have an effect.">>
        warnings == <<"Not a diagnosis. Consult a clinician.">>
    IN  IF v >= 12600 THEN
            ItemResult(key, name, Some(v), unit, "high",
                name \o " measured high, at 126 or above.", explain,
                <<"Possible glucose metabolism problem", "Condition/drug/stress effect">>,
                steps0 \o <<"Discuss a retest or HbA1c with a clinician.">>, warnings, ev)
        ELSE IF 10000 <= v /\ v <= 12500 THEN
            ItemResult(key, name, Some(v), unit, "borderline",
                name \o " is in the 100-125 band, possibly borderline.", explain,
                <<"Weight gain/lack of exercise", "Carbohydrate intake", "Lack of sleep">>,
                steps0 \o <<"Adjust diet, exercise, consider a retest in 1-3 months.">>,
                warnings, ev)
        ELSE IF v < 7000 THEN
            ItemResult(key, name, Some(v), unit, "low",
                name \o " measured low.", explain,
                <<"Fasting too long", "Some drugs", "Condition effect">>,
                steps0 \o <<"Consult a clinician if you have hypoglycemia symptoms.">>,
                warnings, ev)
        ELSE
            ItemResult(key, name, Some(v), unit, cls, by_ref_short(name, cls), explain,
                <<>>, steps0, warnings, ev)

hba1c_item(key, name, v, unit, cls, ev) ==
    LET explain  == "HbA1c indirectly shows the average glucose of the last 2-3 months."
        steps0   == <<"Useful for following the trend.">>
        warnings == <<"Not a diagnosis. Discuss with a clinician.">>
    IN  IF v >= 650 THEN
            ItemResult(key, name, Some(v), unit, "high",
                name \o " measured high, at 6.5 or above.", explain,
                <<"Possible glucose control problem">>,
                steps0 \o <<"Discuss fasting glucose/further tests with a clinician.">>,
                warnings, ev)
        ELSE IF 570 <= v /\ v <= 640 THEN
            ItemResult(key, name, Some(v), unit, "borderline",
                name \o " is in the 5.7-6.4 band, possibly borderline.", explain,
                <<"Weight/activity/diet effect">>,
                steps0 \o <<"Consider a retest within 3 months.">>, warnings, ev)
        ELSE
            ItemResult(key, name, Some(v), unit, cls, by_ref_short(name, cls), explain,
                <<>>, steps0, warnings, ev)

liver_item(key, name, v, unit, cls, rr2, ev) ==
    LET explain  == name \o " is an enzyme marker related to liver/biliary or muscle damage."
        steps0   == <<"Check recent alcohol, hard exercise, drugs/supplements.">>
        warnings == <<"Consult a clinician if it keeps rising or symptoms appear.">>
        ul       == rr2.high
    IN  IF ul # None THEN
            IF v >= 5 * ul[1] THEN
                ItemResult(key, name, Some(v), unit, "high",
                    name \o " rose to 5 times the upper reference limit or more.", explain,
                    <<"Possible acute liver injury", "Drug/virus/alcohol">>,
                    steps0 \o <<"Prompt consultation/retest is advised.">>, warnings, ev)
            ELSE IF v >= 2 * ul[1] THEN
                ItemResult(key, name, Some(v), unit, "high",
                    name \o " rose to 2 times the upper reference limit or more.", explain,
                    <<"Fatty liver/alcohol/drug/virus">>,
                    steps0 \o <<"Consider a cause evaluation with a clinician.">>, warnings, ev)
            ELSE IF v > ul[1] THEN
                ItemResult(key, name, Some(v), unit, "borderline",
                    name \o " slightly exceeds the upper reference limit.", explain,
                    <<"Transient rise (alcohol/exercise/drug)", "Fatty liver">>,
                    steps0 \o <<"Consider a retest in 2-8 weeks.">>, warnings, ev)
            ELSE
                ItemResult(key, name, Some(v), unit, cls,
                    name \o " is within the reference range.", explain,
                    <<>>, steps0, warnings, ev)
        ELSE
            ItemResult(key, name, Some(v), unit, cls, by_ref_short(name, cls), explain,
                <<>>, steps0, warnings, ev)

\* the eGFR ladder keeping the baseline classification in its last rung
egfr_item_baseline(key, name, v, unit, cls, ev) ==
    LET explain  == "eGFR estimates how well the kidneys filter blood."
        steps0   == <<"Interpret together with creatinine, urine test, BP/glucose.">>
        warnings == <<"Interpretation varies with age/muscle mass.">>
    IN  IF v < 3000 THEN
            ItemResult(key, name, Some(v), unit, "high",
                name \o " is low, under 30. Prompt evaluation may be needed.", explain,
                <<"Possible reduced kidney function">>,
                steps0 \o <<"Consult a clinician as soon as possible.">>, warnings, ev)
        ELSE IF 3000 <= v /\ v < 6000 THEN
            ItemResult(key, name, Some(v), unit, "high",
                name \o " is low, in the 30-59 band. Further evaluation may be needed.", explain,
                <<"Possible reduced kidney function", "Chronic disease effect">>,
                steps0 \o <<"Make a follow-up plan with a clinician.">>, warnings, ev)
        ELSE IF 6000 <= v /\ v < 9000 THEN
            ItemResult(key, name, Some(v), unit, "borderline",
                name \o " may be somewhat low, in the 60-89 band.", explain,
                <<"Age/build/hydration effect", "Possible early change">>,
                steps0 \o <<"Review lifestyle and consider follow-up.">>, warnings, ev)
        ELSE
            ItemResult(key, name, Some(v), unit, cls,
                name \o " is 90 or above, the usual normal category.", explain,
                <<>>, steps0, warnings, ev)

egfr_item(key, name, v, unit, cls, ev) ==
    LET explain  == "eGFR estimates how well the kidneys filter blood."
        steps0   == <<"Interpret together with creatinine, urine test, BP/glucose.">>
        warnings == <<"Interpretation varies with age/muscle mass.">>
    IN  IF v < 3000 THEN
            ItemResult(key, name, Some(v), unit, "high",
                name \o " is low, under 30. Prompt evaluation may be needed.", explain,
                <<"Possible reduced kidney function">>,
                steps0 \o <<"Consult a clinician as soon as possible.">>, warnings, ev)
        ELSE IF 3000 <= v /\ v < 6000 THEN
            ItemResult(key, name, Some(v), unit, "high",
                name \o " is low, in the 30-59 band. Further evaluation may be needed.", explain,
                <<"Possible reduced kidney function", "Chronic disease effect">>,
                steps0 \o <<"Make a follow-up plan with a clinician.">>, warnings, ev)
        ELSE IF 6000 <= v /\ v < 9000 THEN
            ItemResult(key, name, Some(v), unit, "borderline",
                name \o " may be somewhat low, in the 60-89 band.", explain,
                <<"Age/build/hydration effect", "Possible early change">>,
                steps0 \o <<"Review lifestyle and consider follow-up.">>, warnings, ev)
        ELSE
            ItemResult(key, name, Some(v), unit, "normal",
                name \o " is 90 or above, the usual normal category.", explain,
                <<>>, steps0, warnings, ev)

default_item(key, name, v, unit, cls, ev) ==
    ItemResult(key, name, Some(v), unit, cls, by_ref_short(name, cls),
        "This item was classified by the entered value and the reference range.",
        <<>>, <<"Interpret together with personal history/symptoms.">>,
        <<"Not a diagnosis. Consult a clinician if needed.">>, ev)

\* one iteration of the loop over the lab keys: the ItemResult it appends
lab_item(key, p, labs_) ==
    LET li   == DictGet(labs_, key, LabInputDefault)
        unit == IF li.unit # "" THEN li.unit ELSE DictGet(UNITS_DEFAULT, key, "")
    IN  IF li.value = None THEN absent_item(key, unit)
        ELSE
          LET v    == li.value[1]
              rr   == get_default_ref(key, p)
              cr   == classify_with_ref(v, li, rr)
              cls  == cr[1]
              rr2  == cr[2]
              ev   == evidence_of(rr2, unit)
              name == DictGet(DISPLAY_NAMES_KO, key, key)
          IN  IF key = "fasting_glucose" THEN fasting_glucose_item(key, name, v, unit, cls, ev)
              ELSE IF key = "hba1c" THEN hba1c_item(key, name, v, unit, cls, ev)
              ELSE IF key \in {"ast", "alt", "ggt"} THEN liver_item(key, name, v, unit, cls, rr2, ev)
              ELSE IF key = "egfr" THEN egfr_item(key, name, v, unit, cls, ev)
              ELSE default_item(key, name, v, unit, cls, ev)

\* the loop running over LAB_KEYS
INTERPRET_KEYS_LAB_KEYS == LAB_KEYS

\* the key list of the loop in interpret
INTERPRET_KEYS ==
    <<"fasting_glucose", "hba1c", "total_chol", "ldl", "hdl", "tg",
      "ast", "alt", "ggt", "creatinine", "egfr", "uric_acid">>

RECURSIVE lab_loop(_, _, _, _)
lab_loop(i, acc, p, labs_) ==
    IF i > Len(INTERPRET_KEYS) THEN acc
    ELSE lab_loop(i + 1, Append(acc, lab_item(INTERPRET_KEYS[i], p, labs_)), p, labs_)

\* the synthetic "bp" item
bp_item(labs_) ==
    LET sbp == DictGet(labs_, "sbp", LabInputDefault).value
        dbp == DictGet(labs_, "dbp", LabInputDefault).value
    IN  IF sbp = None \/ dbp = None THEN
            ItemResult("bp", DISPLAY_NAMES_KO["bp"], None, "mmHg", "unknown",
                "Not enough BP input.", "Both SBP and DBP are needed to interpret.",
                <<>>, <<"Enter SBP/DBP (e.g. 120/80).">>, <<>>,
                <<"General BP categories (not a diagnosis)">>)
        ELSE
            LET st == bp_status(sbp[1], dbp[1])
            IN  ItemResult("bp", DISPLAY_NAMES_KO["bp"], None, "mmHg", st[1], st[2],
                    "BP depends a lot on the measuring conditions; repeated averages matter.",
                    <<"Stress/lack of sleep", "Weight gain", "Salt intake", "Caffeine/alcohol">>,
                    <<"Measure at home morning/evening for 1-2 weeks.",
                      "Less salt, weight/exercise management help.">>,
                    <<"Chest pain/dyspnea/neurological symptoms may need immediate care.">>,
                    <<"General BP categories (not a diagnosis)">>)

interpret(p, labs_) == Append(lab_loop(1, <<>>, p, labs_), bp_item(labs_))

----------------------------------------------------------------------------
(* Report *)

RECURSIVE item_lines(_, _, _)
\* the lines of one section: kind 1 critical, 2 high, 3 borderline/low
item_lines(rs, i, kind) ==
    IF i > Len(rs) THEN <<>>
    ELSE LET r == rs[i]
             line == IF kind = 1 THEN "- " \o r.name_ko \o " (" \o r.status \o ")"
                     ELSE IF kind = 2 THEN "- " \o r.name_ko \o ": " \o fmt(r.value) \o " " \o r.unit
                     ELSE "- " \o r.name_ko \o ": " \o fmt(r.value) \o " " \o r.unit
                          \o " (" \o r.status \o ")"
         IN  <<line>> \o item_lines(rs, i + 1, kind)

CRITICAL_HEADER == "(!) **There may be signals that need immediate attention.**"
HIGH_HEADER == "(H) **Items classified in the high category**"
BORDERLINE_HEADER == "(B) **Items in the borderline/low category**"
REASSURING_LINE == "(OK) **No signal far out of range for the entered items.** (may vary)"

DISCLAIMER ==
    <<"This result is not medical practice; it is an informational explanation.",
      "If you have symptoms or worry about a value, consult a clinician.",
      "Reference values and interpretation vary by laboratory/person.">>

\* make_report emitting the high section first
make_report_high_first(p, rs) ==
    LET critical   == SelectSeq(rs, LAMBDA r : r.status = "critical")
        high       == SelectSeq(rs, LAMBDA r : r.status = "high")
        borderline == SelectSeq(rs, LAMBDA r : r.status \in {"borderline", "low"})
        s1 == IF critical # <<>> THEN <<CRITICAL_HEADER>> \o item_lines(critical, 1, 1) ELSE <<>>
        s2 == IF high # <<>> THEN <<HIGH_HEADER>> \o item_lines(high, 1, 2) ELSE <<>>
        s3 == IF borderline # <<>>
              THEN <<BORDERLINE_HEADER>> \o item_lines(borderline, 1, 3) ELSE <<>>
        s4 == IF ~(critical # <<>> \/ high # <<>> \/ borderline # <<>>)
              THEN <<REASSURING_LINE>> ELSE <<>>
    IN  [person |-> [age |-> p.age, sex |-> p.sex],
         summary |-> s2 \o s1 \o s3 \o s4,
         disclaimer |-> DISCLAIMER]

make_report(p, rs) ==
    LET critical   == SelectSeq(rs, LAMBDA r : r.status = "critical")
        high       == SelectSeq(rs, LAMBDA r : r.status = "high")
        borderline == SelectSeq(rs, LAMBDA r : r.status \in {"borderline", "low"})
        s1 == IF critical # <<>> THEN <<CRITICAL_HEADER>> \o item_lines(critical, 1, 1) ELSE <<>>
        s2 == IF high # <<>> THEN <<HIGH_HEADER>> \o item_lines(high, 1, 2) ELSE <<>>
        s3 == IF borderline # <<>>
              THEN <<BORDERLINE_HEADER>> \o item_lines(borderline, 1, 3) ELSE <<>>
        s4 == IF ~(critical # <<>> \/ high # <<>> \/ borderline # <<>>)
              THEN <<REASSURING_LINE>> ELSE <<>>
    IN  [person |-> [age |-> p.age, sex |-> p.sex],
         summary |-> s1 \o s2 \o s3 \o s4,
         disclaimer |-> DISCLAIMER]

----------------------------------------------------------------------------
(* Inputs of a run: the person and the labs mapping *)

Sexes == {"male", "female"}
Ages == {25, 70}
Persons == {Person(a, s) : a \in Ages, s \in Sexes}

\* an unrecognized key of the labs mapping
OTHER_KEY == "waist"
AllKeys == {LAB_KEYS[i] : i \in 1..Len(LAB_KEYS)} \cup {OTHER_KEY}

Opt(S) == {None} \cup {Some(x) : x \in S}

\* values around every threshold the key is compared with
FineValues(key) ==
    CASE key = "fasting_glucose" ->
            {-100, 0, 6900, 6990, 7000, 8500, 9900, 9960, 10000, 12500, 12560, 12600, 13000}
      [] key = "hba1c" -> {390, 400, 500, 560, 566, 570, 640, 646, 650, 700}
      [] key \in {"ast", "alt", "ggt"} ->
            {-100, 0, 500, 2000, 2100, 3990, 4000, 4050, 4100, 5900, 6000, 6100, 7990, 8000,
             9990, 10000, 11990, 12000, 19990, 20000, 29990, 30000}
      [] key = "egfr" -> {-100, 0, 2900, 2990, 3000, 5900, 5950, 6000, 8900, 8990, 9000, 12000}
      [] key = "hdl" -> {3900, 4000, 4500, 5000, 6000}
      [] key = "creatinine" -> {50, 59, 60, 73, 74, 100, 104, 106, 120, 135, 136}
      [] key = "uric_acid" -> {200, 240, 300, 340, 600, 610, 700, 710}
      [] key = "sbp" -> {11800, 12000, 12500, 12900, 12950, 13000, 13500, 13900, 13950,
                         14000, 15000, 17900, 18000, 18500}
      [] key = "dbp" -> {7000, 7500, 7900, 7950, 8000, 8900, 8950, 9000, 11900, 12000}
      [] OTHER -> {10000, 12900, 13000, 14900, 15000, 19900, 20000}

\* user-supplied reference bounds
FineLows(key) ==
    CASE key = "fasting_glucose" -> {8000, 12800}
      [] key = "hba1c" -> {450}
      [] key \in {"ast", "alt", "ggt"} -> {1000, 5000}
      [] key = "egfr" -> {6000, 10000}
      [] key = "hdl" -> {4500}
      [] key = "creatinine" -> {60}
      [] key = "uric_acid" -> {300}
      [] OTHER -> {11000}

FineHighs(key) ==
    CASE key = "fasting_glucose" -> {9000, 13000}
      [] key = "hba1c" -> {600}
      [] key \in {"ast", "alt", "ggt"} -> {0, 2000}
      [] key = "egfr" -> {5000}
      [] key = "hdl" -> {5500}
      [] key = "creatinine" -> {120}
      [] key = "uric_acid" -> {650}
      [] OTHER -> {14000}

UserUnits == {"", "IU/L"}

FineInputs(key) ==
    {LabInput(v, lo, hi, u) : v \in Opt(FineValues(key)), lo \in Opt(FineLows(key)),
                              hi \in Opt(FineHighs(key)), u \in UserUnits}

\* mappings with one entry, drawn from the fine inputs of its key
SingleItemInputs == UNION {{(key :> li) : li \in FineInputs(key)} : key \in AllKeys}

\* mappings with the blood-pressure pair (an absent value included)
BloodPressureInputs ==
    {("sbp" :> LabInput(s, None, None, "")) @@ ("dbp" :> LabInput(d, None, None, "")) :
        s \in Opt(FineValues("sbp")), d \in Opt(FineValues("dbp"))}

\* a checkup panel: per key an unremarkable and a remarkable value
PanelValue(key, c) ==
    CASE key = "fasting_glucose" -> IF c = 1 THEN 9000 ELSE 13000
      [] key = "hba1c" -> IF c = 1 THEN 500 ELSE 600
      [] key = "total_chol" -> IF c = 1 THEN 18000 ELSE 24000
      [] key = "ldl" -> IF c = 1 THEN 10000 ELSE 16000
      [] key = "hdl" -> IF c = 1 THEN 6000 ELSE 3500
      [] key = "tg" -> IF c = 1 THEN 10000 ELSE 20000
      [] key = "ast" -> IF c = 1 THEN 3000 ELSE 4100
      [] key = "alt" -> IF c = 1 THEN 3000 ELSE 9000
      [] key = "ggt" -> IF c = 1 THEN 3000 ELSE 5000
      [] key = "creatinine" -> IF c = 1 THEN 90 ELSE 120
      [] key = "egfr" -> IF c = 1 THEN 9500 ELSE 7000
      [] key = "uric_acid" -> IF c = 1 THEN 500 ELSE 200
      [] key = "sbp" -> IF c = 1 THEN 11800 ELSE 18500
      [] key = "dbp" -> IF c = 1 THEN 7500 ELSE 8500
      [] OTHER -> IF c = 1 THEN 100 ELSE 200

\* mappings with at most MaxEntries entries
PanelInputs ==
    UNION {{[k \in K |-> LabInput(Some(PanelValue(k, c[k])), None, None, "")] : c \in [K -> 1..2]} :
            K \in {S \in SUBSET AllKeys : Cardinality(S) <= MaxEntries}}

LabsInputs == SingleItemInputs \cup BloodPressureInputs \cup PanelInputs

----------------------------------------------------------------------------
(* The state machine: a run draws its inputs, then the entry points are called *)

NoReport == [person |-> [age |-> 0, sex |-> ""], summary |-> <<>>, disclaimer |-> <<>>]
NoMerge == [key |-> "", value |-> 0, cls |-> "", rr2 |-> RefRange(None, None, "")]

Init ==
    /\ person \in Persons
    /\ labs \in LabsInputs
    /\ results = <<>>
    /\ report = NoReport
    /\ merged = NoMerge
    /\ pc = "start"

\* results = interpret(person, labs)
Interpret ==
    /\ pc = "start"
    /\ results' = interpret(person, labs)
    /\ pc' = "interpreted"
    /\ UNCHANGED <<person, labs, report, merged>>

\* report = make_report(person, results)
MakeReport ==
    /\ pc = "interpreted"
    /\ report' = make_report(person, results)
    /\ pc' = "reported"
    /\ UNCHANGED <<person, labs, results, merged>>

\* classify_with_ref(li.value, li, get_default_ref(key, person)) for an entry with a value
ClassifyWithRef ==
    /\ pc = "start"
    /\ \E key \in DOMAIN labs :
          /\ labs[key].value # None
          /\ LET cr == classify_with_ref(labs[key].value[1], labs[key],
                                         get_default_ref(key, person))
             IN  merged' = [key |-> key, value |-> labs[key].value[1],
                            cls |-> cr[1], rr2 |-> cr[2]]
    /\ pc' = "classified"
    /\ UNCHANGED <<person, labs, results, report>>

Next == Interpret \/ MakeReport \/ ClassifyWithRef

Spec == Init /\ [][Next]_vars

----------------------------------------------------------------------------
(* Properties *)

Interpreted == pc \in {"interpreted", "reported"}

\* the entry interpret reads for a key
In(key) == DictGet(labs, key, LabInputDefault)

Present(key) == In(key).value # None

LabKeySet == {"fasting_glucose", "hba1c", "total_chol", "ldl", "hdl", "tg",
              "ast", "alt", "ggt", "creatinine", "egfr", "uric_acid"}

\* the results interpret returned for a key
ResultsOf(key) == {results[i] : i \in {j \in 1..Len(results) : results[j].key = key}}

LiverKeys == {"ast", "alt", "ggt"}

\* upper bound of the effective range of a liver enzyme: the user's, else the default
LiverUpper(key) ==
    IF In(key).ref_high # None THEN In(key).ref_high[1]
    ELSE IF key = "ggt" /\ person.sex = "male" THEN 6000 ELSE 4000

LiverLadder(v, U) ==
    IF v >= 5 * U THEN "high"
    ELSE IF v >= 2 * U THEN "high"
    ELSE IF v > U THEN "borderline"
    ELSE "normal"

\* C1: for AST, ALT and GGT with a present value v and effective upper bound U,
\* the status is 'high' when v >= 5U (two causes listed, severe tier), 'high' when
\* v >= 2U (one cause listed, moderate tier), 'borderline' when v > U, and
\* 'normal' when v <= U, for every value, sex and user-supplied low/high bound.
C1_LiverLadder ==
    Interpreted =>
        \A key \in LiverKeys : Present(key) =>
            /\ ResultsOf(key) # {}
            /\ \A r \in ResultsOf(key) :
                  LET v == In(key).value[1]
                      U == LiverUpper(key)
                  IN  /\ r.status = LiverLadder(v, U)
                      /\ v >= 5 * U => Len(r.possible_causes) = 2
                      /\ (v < 5 * U /\ v >= 2 * U) => Len(r.possible_causes) = 1

EgfrByValue(v) ==
    IF v < 3000 THEN "high"
    ELSE IF v < 6000 THEN "high"
    ELSE IF v < 9000 THEN "borderline"
    ELSE "normal"

\* C2: the eGFR status is a function of the eGFR value alone (under 30 high,
\* 30 to under 60 high, 60 to under 90 borderline, 90 and above normal): the
\* user-supplied bounds, the sex and the age never influence it.
C2_EgfrByValueOnly ==
    (Interpreted /\ Present("egfr")) =>
            /\ ResultsOf("egfr") # {}
            /\ \A r \in ResultsOf("egfr") : r.status = EgfrByValue(In("egfr").value[1])

\* an eGFR of 90 with a user-supplied lower bound of 100 (baseline 'low') is 'normal'
C2_Witness ==
    /\ Interpreted
    /\ In("egfr").value = Some(9000)
    /\ In("egfr").ref_low = Some(10000)
    /\ \E r \in ResultsOf("egfr") : r.status = "normal"

\* baseline classification of fasting glucose: user bound where supplied, else 70..99
GlucoseBaseline(v) ==
    LET lo == IF In("fasting_glucose").ref_low # None
              THEN In("fasting_glucose").ref_low[1] ELSE 7000
        hi == IF In("fasting_glucose").ref_high # None
              THEN In("fasting_glucose").ref_high[1] ELSE 9900
    IN  IF v < lo THEN "low" ELSE IF v > hi THEN "high" ELSE "normal"

\* C3: fasting glucose of 126 or more is 'high', 100 to 125 is 'borderline',
\* under 70 is 'low', whatever the user-supplied bounds; every other value keeps
\* the baseline classification against the effective range.
C3_GlucoseRungs ==
    (Interpreted /\ Present("fasting_glucose")) =>
            /\ ResultsOf("fasting_glucose") # {}
            /\ \A r \in ResultsOf("fasting_glucose") :
                  LET v == In("fasting_glucose").value[1]
                  IN  r.status = (IF v >= 12600 THEN "high"
                                  ELSE IF v >= 10000 /\ v <= 12500 THEN "borderline"
                                  ELSE IF v < 7000 THEN "low"
                                  ELSE GlucoseBaseline(v))

\* 125.6 with a user-supplied upper bound of 130 falls between the rungs: 'normal'
C3_Witness ==
    /\ Interpreted
    /\ In("fasting_glucose").value = Some(12560)
    /\ In("fasting_glucose").ref_high = Some(13000)
    /\ \E r \in ResultsOf("fasting_glucose") : r.status = "normal"

BpTable(sbp, dbp) ==
    IF sbp >= 18000 \/ dbp >= 12000 THEN "critical"
    ELSE IF sbp >= 14000 \/ dbp >= 9000 THEN "high"
    ELSE IF (sbp >= 13000 /\ sbp <= 13900) \/ (dbp >= 8000 /\ dbp <= 8900) THEN "borderline"
    ELSE IF (sbp >= 12000 /\ sbp <= 12900) /\ dbp < 8000 THEN "borderline"
    ELSE "normal"

\* C4: with both sbp and dbp present the 'bp' status follows the joint table,
\* first match from the top; with either absent the 'bp' status is 'unknown'
\* and carries the not-enough-input text instead of a bp_status text.
C4_BloodPressure ==
    Interpreted =>
        /\ ResultsOf("bp") # {}
        /\ \A r \in ResultsOf("bp") :
              IF Present("sbp") /\ Present("dbp")
              THEN r.status = BpTable(In("sbp").value[1], In("dbp").value[1])
              ELSE r.status = "unknown" /\ r.short = "Not enough BP input."

\* 125/75 is matched by the fourth row only
C4_Witness ==
    /\ Interpreted
    /\ In("sbp").value = Some(12500)
    /\ In("dbp").value = Some(7500)
    /\ \E r \in ResultsOf("bp") : r.status = "borderline"

\* indices of the results whose status is in S
Bucket(S) == {i \in 1..Len(results) : results[i].status \in S}
SectionLen(ix) == IF ix = {} THEN 0 ELSE 1 + Cardinality(ix)
Rank(i, ix) == Cardinality({j \in ix : j <= i})

\* C5: the summary is built from the result list only: a critical section
\* (header, one line per 'critical' result), then a high section, then a
\* borderline/low section, each present exactly when its bucket is non-empty
\* and listing its results in input order; the reassuring line is emitted
\* exactly when all three buckets are empty and is then the only line; the
\* disclaimer is always the same three lines.
C5_ReportSections ==
    pc = "reported" =>
        LET sm == report.summary
            C  == Bucket({"critical"})
            H  == Bucket({"high"})
            B  == Bucket({"borderline", "low"})
            none == C = {} /\ H = {} /\ B = {}
        IN  /\ Len(sm) = SectionLen(C) + SectionLen(H) + SectionLen(B)
                         + (IF none THEN 1 ELSE 0)
            /\ C # {} =>
                 /\ sm[1] = CRITICAL_HEADER
                 /\ \A i \in C : sm[1 + Rank(i, C)] =
                        "- " \o results[i].name_ko \o " (" \o results[i].status \o ")"
            /\ H # {} =>
                 /\ sm[SectionLen(C) + 1] = HIGH_HEADER
                 /\ \A i \in H : sm[SectionLen(C) + 1 + Rank(i, H)] =
                        "- " \o results[i].name_ko \o ": " \o fmt(results[i].value)
                        \o " " \o results[i].unit
            /\ B # {} =>
                 /\ sm[SectionLen(C) + SectionLen(H) + 1] = BORDERLINE_HEADER
                 /\ \A i \in B : sm[SectionLen(C) + SectionLen(H) + 1 + Rank(i, B)] =
                        "- " \o results[i].name_ko \o ": " \o fmt(results[i].value)
                        \o " " \o results[i].unit \o " (" \o results[i].status \o ")"
            /\ none => sm = <<REASSURING_LINE>>
            /\ (\E k \in 1..Len(sm) : sm[k] = REASSURING_LINE) <=> none
            /\ Len(report.disclaimer) = 3
            /\ report.disclaimer = DISCLAIMER

\* one critical (bp) and at least one high result, no borderline or low one
C5_Witness ==
    /\ pc = "reported"
    /\ Bucket({"critical"}) # {}
    /\ Bucket({"high"}) # {}
    /\ Bucket({"borderline", "low"}) = {}
    /\ report.summary[1] = CRITICAL_HEADER
    /\ report.summary[3] = HIGH_HEADER

\* C6: every lab item whose value is absent (key missing, or value None) gets
\* a result with status 'unknown', value None and an empty evidence list,
\* whatever reference bounds and person are given.
C6_AbsentIsUnknown ==
    Interpreted =>
        \A key \in LabKeySet : ~Present(key) =>
            /\ ResultsOf(key) # {}
            /\ \A r \in ResultsOf(key) :
                  r.status = "unknown" /\ r.value = None /\ r.evidence = <<>>

\* an entry without a value but with both user-supplied bounds
C6_Witness ==
    /\ Interpreted
    /\ "ggt" \in DOMAIN labs
    /\ labs["ggt"].value = None
    /\ labs["ggt"].ref_low # None
    /\ labs["ggt"].ref_high # None
    /\ \E r \in ResultsOf("ggt") : r.status = "unknown"

\* C7: interpret returns exactly 13 results: one per lab key in the order
\* fasting_glucose, hba1c, total_chol, ldl, hdl, tg, ast, alt, ggt,
\* creatinine, egfr, uric_acid, then the 'bp' result, whatever the mapping holds.
C7_ResultOrder ==
    Interpreted =>
        /\ Len(results) = 13
        /\ [i \in 1..Len(results) |-> results[i].key] =
              <<"fasting_glucose", "hba1c", "total_chol", "ldl", "hdl", "tg",
                "ast", "alt", "ggt", "creatinine", "egfr", "uric_acid", "bp">>

\* a mapping holding sbp, an unrecognized key and a lab key
C7_Witness ==
    /\ Interpreted
    /\ {"sbp", OTHER_KEY} \subseteq DOMAIN labs
    /\ DOMAIN labs \cap LabKeySet # {}
    /\ Len(results) = 13

\* effective bounds: the user's bound where supplied, else the default's
EffLow(key) ==
    IF In(key).ref_low # None THEN In(key).ref_low ELSE get_default_ref(key, person).low
EffHigh(key) ==
    IF In(key).ref_high # None THEN In(key).ref_high ELSE get_default_ref(key, person).high

\* C8: the effective range is merged per bound: low is the user's ref_low if
\* supplied, else the default low; high is the user's ref_high if supplied,
\* else the default high; the evidence of a result names exactly these bounds.
C8_MergePerBound ==
    /\ pc = "classified" =>
          /\ merged.rr2.low = EffLow(merged.key)
          /\ merged.rr2.high = EffHigh(merged.key)
    /\ Interpreted =>
          \A key \in LabKeySet : Present(key) =>
              \A r \in ResultsOf(key) :
                  r.evidence = <<"Reference(default/input): " \o fmt(EffLow(key)) \o " ~ "
                                 \o fmt(EffHigh(key)) \o " " \o r.unit>>

\* only a low bound supplied, the default has a high bound: the high bound is kept
C8_Witness ==
    /\ pc = "classified"
    /\ labs[merged.key].ref_low # None
    /\ labs[merged.key].ref_high = None
    /\ get_default_ref(merged.key, person).high # None
    /\ merged.rr2.high = get_default_ref(merged.key, person).high
    /\ merged.rr2.low = labs[merged.key].ref_low

\* C9: RefRange.classify returns one of low, high, normal, unknown for any
\* value and any present/absent bounds: 'low' under the low bound, else 'high'
\* over the high bound, else 'normal'; 'unknown' exactly when both are absent.
C9_ClassifyTotal ==
    pc = "classified" =>
        LET rr == merged.rr2
            v  == merged.value
            below == rr.low # None /\ v < rr.low[1]
            above == rr.high # None /\ v > rr.high[1]
        IN  /\ merged.cls \in {"low", "high", "normal", "unknown"}
            /\ below => merged.cls = "low"
            /\ (above /\ ~below) => merged.cls = "high"
            /\ (merged.cls = "unknown") <=> (rr.low = None /\ rr.high = None)
            /\ (~below /\ ~above /\ ~(rr.low = None /\ rr.high = None)) => merged.cls = "normal"

\* a range without any bound
C9_Witness ==
    /\ pc = "classified"
    /\ merged.rr2.low = None
    /\ merged.rr2.high = None
    /\ merged.cls = "unknown"

\* C10: a lab item with a present value has a status in low, normal,
\* borderline, high; so 'unknown' on a lab item occurs exactly when its value
\* is absent, and 'critical' appears on the 'bp' result only.
C10_PresentIsClassified ==
    Interpreted =>
        /\ \A key \in LabKeySet : \A r \in ResultsOf(key) :
              /\ Present(key) => r.status \in {"low", "normal", "borderline", "high"}
              /\ (r.status = "unknown") <=> ~Present(key)
        /\ \A i \in 1..Len(results) : results[i].status = "critical" => results[i].key = "bp"

\* a classified uric acid value next to a critical blood pressure
C10_Witness ==
    /\ Interpreted
    /\ Present("uric_acid")
    /\ \E r \in ResultsOf("uric_acid") : r.status \in {"low", "normal", "high"}
    /\ \E r \in ResultsOf("bp") : r.status = "critical"

====
